---- MODULE Spec2Model ----
(***************************************************************************)
(* Ethiopian calendar library (package ethiopiancalendar): the leap and    *)
(* month-length rules, the Julian Day Number bridge between the Ethiopian  *)
(* and the Gregorian calendar, formatting, and day/month/year arithmetic.  *)
(* Every function of the package is a pure function of its arguments; a    *)
(* behaviour of this model is one caller's request: an input drawn from a  *)
(* bounded set, one call, and (for the round trips) a second call on the   *)
(* first call's result.                                                    *)
(***************************************************************************)
EXTENDS Integers, Sequences, FiniteSets, TLC

VARIABLES req, pc, ret, arg2, ret2

vars == <<req, pc, ret, arg2, ret2>>

(***************************************************************************)
(* Go integer arithmetic: / and % truncate toward zero.                    *)
(***************************************************************************)
Quo(a, b) == IF a >= 0 THEN a \div b ELSE -((-a) \div b)

Rem(a, b) == a - b * Quo(a, b)

\* The nil error.
Nil == "nil"

EtDate(y, m, d) == [Year |-> y, Month |-> m, Day |-> d]

\* EtDate{}: the zero value returned next to an error.
ZeroDate == EtDate(0, 0, 0)

jdOffset == 1724221

(***************************************************************************)
(* Leap and month-length rules.                                            *)
(***************************************************************************)
\* IsLeap with the Gregorian-style residue, year % 4 == 0, in place of 3.
IsLeapResidue0(year) == IF year < 0 THEN FALSE ELSE Rem(year, 4) = 0

IsLeap(year) == IF year < 0 THEN FALSE ELSE Rem(year, 4) = 3

\* DaysInMonth with the month == 13 test inverted.
DaysInMonthInverted(year, month) ==
  IF month < 1 \/ month > 13 THEN 0
  ELSE IF month # 13 THEN (IF IsLeap(year) THEN 6 ELSE 5)
  ELSE 30

DaysInMonth(year, month) ==
  IF month < 1 \/ month > 13 THEN 0
  ELSE IF month = 13 THEN (IF IsLeap(year) THEN 6 ELSE 5)
  ELSE 30

(***************************************************************************)
(* Validation: the error, or Nil.                                          *)
(***************************************************************************)
Validate(d) ==
  IF d.Year <= 0 THEN "year must be positive"
  ELSE IF d.Month < 1 \/ d.Month > 13 THEN "month must be between 1 and 13"
  ELSE IF d.Day < 1 \/ d.Day > DaysInMonth(d.Year, d.Month)
       THEN "day out of range for month"
  ELSE Nil

(***************************************************************************)
(* The JDN bridge.                                                         *)
(***************************************************************************)
\* ToJDN with the leap-day count taken one year late, (y-1)/4.
ToJDNLateLeap(d) ==
  IF Validate(d) # Nil THEN [jdn |-> 0, err |-> Validate(d)]
  ELSE [jdn |-> jdOffset + 365 * (d.Year - 1) + Quo(d.Year - 1, 4)
                  + 30 * (d.Month - 1) + d.Day - 1,
        err |-> Nil]

ToJDN(d) ==
  IF Validate(d) # Nil THEN [jdn |-> 0, err |-> Validate(d)]
  ELSE [jdn |-> jdOffset + 365 * (d.Year - 1) + Quo(d.Year, 4)
                  + 30 * (d.Month - 1) + d.Day - 1,
        err |-> Nil]

EtErr(msg) == [date |-> ZeroDate, err |-> msg]

\* JDNToEtFromYear without the final Validate (lines 108-110 left out).
JDNToEtFromYearUnchecked(year, daysSinceYearStart) ==
  LET month == Quo(daysSinceYearStart, 30) + 1
      day   == Rem(daysSinceYearStart, 30) + 1
  IN  IF month > 13
      THEN [date |-> EtDate(year + 1, 1, daysSinceYearStart - 12 * 30 + 1),
            err |-> Nil]
      ELSE [date |-> EtDate(year, month, day), err |-> Nil]

\* Lines 98-111: month and day from the day offset in the year, then Validate.
JDNToEtFromYear(year, daysSinceYearStart) ==
  LET month == Quo(daysSinceYearStart, 30) + 1
      day   == Rem(daysSinceYearStart, 30) + 1
      d     == IF month > 13
               THEN EtDate(year + 1, 1, daysSinceYearStart - 12 * 30 + 1)
               ELSE EtDate(year, month, day)
  IN  IF Validate(d) # Nil THEN EtErr(Validate(d))
      ELSE [date |-> d, err |-> Nil]

JDNToEt(jdn) ==
  IF jdn < jdOffset THEN EtErr("jdn before Ethiopian epoch")
  ELSE
    LET fixed == jdn - jdOffset
        year0 == Quo(fixed, 365)
        s0    == ToJDN(EtDate(year0, 1, 1))
    IN  IF s0.err # Nil THEN EtErr(s0.err)
        ELSE
          LET dec   == jdn < s0.jdn
              year1 == IF dec THEN year0 - 1 ELSE year0
              s1    == IF dec THEN ToJDN(EtDate(year1, 1, 1)) ELSE s0
          IN  IF s1.err # Nil THEN EtErr(s1.err)
              ELSE IF jdn - s1.jdn < 0 THEN EtErr("invalid day calculation")
              ELSE JDNToEtFromYear(year1, jdn - s1.jdn)

\* Line 127: the 4/100/400 test, with Go's truncating %.
GregorianLeap(year) ==
  Rem(year, 4) = 0 /\ (Rem(year, 100) # 0 \/ Rem(year, 400) = 0)

\* Lines 126-129: daysInMonth[month-1], February patched in a leap year.
GregorianDaysInMonth(year, month) ==
  IF month = 2 /\ GregorianLeap(year) THEN 29
  ELSE <<31, 28, 31, 30, 31, 30, 31, 31, 30, 31, 30, 31>>[month]

GregorianToJDN(year, month, day) ==
  IF year = 0 THEN [jdn |-> 0, err |-> "no year 0 in Gregorian"]
  ELSE IF month < 1 \/ month > 12
       THEN [jdn |-> 0, err |-> "month must be between 1 and 12"]
  ELSE IF day < 1 THEN [jdn |-> 0, err |-> "day must be positive"]
  ELSE IF day > GregorianDaysInMonth(year, month)
       THEN [jdn |-> 0, err |-> "day is out of range for the given month"]
  ELSE
    LET a == Quo(14 - month, 12)
        y == year + 4800 - a
        m == month + 12 * a - 3
    IN  [jdn |-> day + Quo(153 * m + 2, 5) + 365 * y + Quo(y, 4)
                   - Quo(y, 100) + Quo(y, 400) - 32045,
         err |-> Nil]

JDNToGregorian(jdn) ==
  LET a == jdn + 32044
      b == Quo(4 * a + 3, 146097)
      c == a - Quo(146097 * b, 4)
      d == Quo(4 * c + 3, 1461)
      e == c - Quo(1461 * d, 4)
      m == Quo(5 * e + 2, 153)
      day   == e - Quo(153 * m + 2, 5) + 1
      month == m + 3 - 12 * Quo(m, 10)
      year  == 100 * b + d - 4800 + Quo(m, 10)
  IN  IF year <= 0
      THEN [year |-> 0, month |-> 0, day |-> 0, err |-> "invalid Gregorian year"]
      ELSE [year |-> year, month |-> month, day |-> day, err |-> Nil]

ToGregorian(d) ==
  IF ToJDN(d).err # Nil
  THEN [year |-> 0, month |-> 0, day |-> 0, err |-> ToJDN(d).err]
  ELSE JDNToGregorian(ToJDN(d).jdn)

\* Line 170: time.Parse("2006-01-02", Sprintf("%04d-%02d-%02d", ...)) accepts
\* exactly a four-digit year, a two-digit month 01..12 and a day of that month.
TimeParseOK(year, month, day) ==
  /\ 0 <= year /\ year <= 9999
  /\ 1 <= month /\ month <= 12
  /\ 1 <= day /\ day <= GregorianDaysInMonth(year, month)

FromGregorian(year, month, day) ==
  IF ~TimeParseOK(year, month, day) THEN EtErr("invalid Gregorian date")
  ELSE IF GregorianToJDN(year, month, day).err # Nil
       THEN EtErr(GregorianToJDN(year, month, day).err)
  ELSE JDNToEt(GregorianToJDN(year, month, day).jdn)

(***************************************************************************)
(* Formatting.  A string is a sequence of one-character strings.           *)
(***************************************************************************)
Str(n, c) == [i \in 1..n |-> c]

DigitChars == <<"0", "1", "2", "3", "4", "5", "6", "7", "8", "9">>

\* The decimal digits of n >= 0.
RECURSIVE Digits(_)
Digits(n) ==
  IF n < 10 THEN <<DigitChars[n + 1]>>
  ELSE Digits(n \div 10) \o <<DigitChars[(n % 10) + 1]>>

\* fmt.Sprintf("%0<width>d", n): zero padding, the sign counted in the width.
SprintfZeroPad(width, n) ==
  LET ds   == Digits(IF n < 0 THEN -n ELSE n)
      sign == IF n < 0 THEN <<"-">> ELSE <<>>
      pad  == width - Len(sign) - Len(ds)
  IN  sign \o Str(IF pad > 0 THEN pad ELSE 0, "0") \o ds

\* strings.ReplaceAll(s, old, new) for a non-empty old: non-overlapping
\* occurrences, left to right.
RECURSIVE ReplaceAll(_, _, _)
ReplaceAll(s, old, new) ==
  IF Len(s) < Len(old) THEN s
  ELSE IF SubSeq(s, 1, Len(old)) = old
       THEN new \o ReplaceAll(SubSeq(s, Len(old) + 1, Len(s)), old, new)
  ELSE <<Head(s)>> \o ReplaceAll(Tail(s), old, new)

monthNames ==
  << <<>>,
     <<"M", "e", "s", "k", "e", "r", "e", "m">>,
     <<"T", "i", "k", "i", "m", "t">>,
     <<"H", "i", "d", "a", "r">>,
     <<"T", "a", "h", "s", "a", "s">>,
     <<"T", "i", "r">>,
     <<"Y", "e", "k", "a", "t", "i", "t">>,
     <<"M", "e", "g", "a", "b", "i", "t">>,
     <<"M", "i", "a", "z", "i", "a">>,
     <<"G", "e", "n", "b", "o", "t">>,
     <<"S", "e", "n", "e">>,
     <<"H", "a", "m", "l", "e">>,
     <<"N", "e", "h", "a", "s", "e">>,
     <<"P", "a", "g", "u", "m", "e">> >>

\* monthNames[i] of a Go slice: indices 0..len-1; any other index panics.
MonthNameInRange(i) == 0 <= i /\ i < Len(monthNames)

\* Format returns the string, or panics (index out of range) at line 187.
Format(d, layout) ==
  IF ~MonthNameInRange(d.Month) THEN [panic |-> TRUE, str |-> <<>>]
  ELSE
    LET s1 == ReplaceAll(layout, <<"Y", "Y", "Y", "Y">>, SprintfZeroPad(4, d.Year))
        s2 == ReplaceAll(s1, <<"M", "M">>, SprintfZeroPad(2, d.Month))
        s3 == ReplaceAll(s2, <<"D", "D">>, SprintfZeroPad(2, d.Day))
        s4 == ReplaceAll(s3, <<"M", "o", "n", "t", "h">>, monthNames[d.Month + 1])
    IN  [panic |-> FALSE, str |-> s4]

(***************************************************************************)
(* Arithmetic.                                                             *)
(***************************************************************************)
AddDays(d, days) ==
  IF ToJDN(d).err # Nil THEN EtErr(ToJDN(d).err)
  ELSE JDNToEt(ToJDN(d).jdn + days)

\* AddMonths with a twelve-month year (months/12, months%12, +-12).
AddMonthsBase12(d, months) ==
  LET y0 == d.Year + Quo(months, 12)
      m0 == d.Month + Rem(months, 12)
      y  == IF m0 > 13 THEN y0 + 1 ELSE IF m0 < 1 THEN y0 - 1 ELSE y0
      m  == IF m0 > 13 THEN m0 - 12 ELSE IF m0 < 1 THEN m0 + 12 ELSE m0
      maxDay == DaysInMonth(y, m)
  IN  EtDate(y, m, IF d.Day > maxDay THEN maxDay ELSE d.Day)

AddMonths(d, months) ==
  LET y0 == d.Year + Quo(months, 13)
      m0 == d.Month + Rem(months, 13)
      y  == IF m0 > 13 THEN y0 + 1 ELSE IF m0 < 1 THEN y0 - 1 ELSE y0
      m  == IF m0 > 13 THEN m0 - 13 ELSE IF m0 < 1 THEN m0 + 13 ELSE m0
      maxDay == DaysInMonth(y, m)
  IN  EtDate(y, m, IF d.Day > maxDay THEN maxDay ELSE d.Day)

AddYears(d, years) ==
  LET y == d.Year + years
      maxDay == DaysInMonth(y, d.Month)
  IN  IF d.Month = 13 /\ d.Day > maxDay THEN EtDate(y, d.Month, maxDay)
      ELSE EtDate(y, d.Month, d.Day)

(***************************************************************************)
(* Inputs.                                                                 *)
(***************************************************************************)
\* Each block of years starts at a base and spans YearSpan further years:
\* the epoch, the two ends of the range where fixed/365 estimates the year
\* itself, and the years of the package's tests.
YearSpan == 2

YearBases == {1, 1458, 2015, 2922}

Years == UNION {b..(b + YearSpan) : b \in YearBases}

\* Every day 1..30 of every month 1..13 of those years: the valid dates, and
\* the days past the end of month 13.
CalendarDates == {EtDate(y, m, dd) : y \in Years, m \in 1..13, dd \in 1..30}

\* Unvalidated dates: months up to MonthMargin outside 1..13, years <= 0.
MonthMargin == 2

ProbeYears == {-1, 0, 2015, 2016}

ProbeDays == {0, 1, 5, 6, 7, 30, 31}

ProbeDates ==
  {EtDate(y, m, dd) : y \in ProbeYears,
                      m \in (-MonthMargin)..(13 + MonthMargin),
                      dd \in ProbeDays}

EtInputs == CalendarDates \cup ProbeDates

MaxDays == 2

MaxMonths == 14

MaxYears == 3

\* The day count of the package's test (TestAddDays).
TestDays == 10

DayValues == ((-MaxDays)..MaxDays) \cup {TestDays}

Layouts ==
  { <<"D", "D", " ", "M", "o", "n", "t", "h", " ", "Y", "Y", "Y", "Y">>,
    <<"Y", "Y", "Y", "Y", "-", "M", "M", "-", "D", "D">>,
    <<"M", "M", "o", "n", "t", "h">> }

GregYears == {-4, -1, 0, 1, 8, 1900, 2000, 2023, 2024}

GregInputs ==
  {EtDate(y, m, dd) : y \in GregYears, m \in 0..13, dd \in 0..32}

\* The day numbers of the valid dates, and up to MaxDays around them.
JdnInputs ==
  {ToJDN(d).jdn + k : d \in {x \in CalendarDates : Validate(x) = Nil},
                      k \in (-MaxDays)..MaxDays}

LeapYears == Years \cup ((-2 * MaxYears)..(2 * MaxYears))

Request(op, date, value, layout) ==
  [op |-> op, date |-> date, value |-> value, layout |-> layout]

\* The requests, one set per operation.
LeapRequests ==
  {Request("IsLeap", EtDate(y, 0, 0), 0, <<>>) : y \in LeapYears}

MonthRequests ==
  {Request("DaysInMonth", EtDate(y, m, 0), 0, <<>>) :
     y \in LeapYears, m \in (-MonthMargin)..(13 + MonthMargin)}

DateRequests ==
  {Request(op, d, 0, <<>>) :
     op \in {"Validate", "ToJDN", "ToGregorian"}, d \in EtInputs}

JdnRequests == {Request("JDNToEt", ZeroDate, j, <<>>) : j \in JdnInputs}

GregRequests ==
  {Request(op, g, 0, <<>>) :
     op \in {"GregorianToJDN", "FromGregorian"}, g \in GregInputs}

FormatRequests ==
  {Request("Format", d, 0, l) : d \in EtInputs, l \in Layouts}

DaysRequests ==
  {Request("AddDays", d, n, <<>>) : d \in EtInputs, n \in DayValues}

MonthsRequests ==
  {Request("AddMonths", d, n, <<>>) :
     d \in EtInputs, n \in (-MaxMonths)..MaxMonths}

YearsRequests ==
  {Request("AddYears", d, n, <<>>) :
     d \in EtInputs, n \in (-MaxYears)..MaxYears}

(***************************************************************************)
(* The caller: one request, one call, and for the round trips a second     *)
(* call on the result of the first.                                        *)
(***************************************************************************)
NoRet == "none"

Init ==
  /\ \/ req \in LeapRequests
     \/ req \in MonthRequests
     \/ req \in DateRequests
     \/ req \in JdnRequests
     \/ req \in GregRequests
     \/ req \in FormatRequests
     \/ req \in DaysRequests
     \/ req \in MonthsRequests
     \/ req \in YearsRequests
  /\ pc = "start"
  /\ ret = NoRet
  /\ arg2 = 0
  /\ ret2 = NoRet

\* A first call: the request's operation applied to the request's inputs.
Call(op, result) ==
  /\ pc = "start"
  /\ req.op = op
  /\ ret' = result
  /\ pc' = "called"
  /\ UNCHANGED <<req, arg2, ret2>>

\* A second call, made on the value a successful first call returned.
Then(op, result, b) ==
  /\ pc = "called"
  /\ req.op = op
  /\ ret.err = Nil
  /\ ret2' = result
  /\ arg2' = b
  /\ pc' = "chained"
  /\ UNCHANGED <<req, ret>>

CallIsLeap == Call("IsLeap", IsLeap(req.date.Year))

CallDaysInMonth ==
  Call("DaysInMonth", DaysInMonth(req.date.Year, req.date.Month))

CallValidate == Call("Validate", Validate(req.date))

CallToJDN == Call("ToJDN", ToJDN(req.date))

CallJDNToEt == Call("JDNToEt", JDNToEt(req.value))

CallGregorianToJDN ==
  Call("GregorianToJDN",
       GregorianToJDN(req.date.Year, req.date.Month, req.date.Day))

CallToGregorian == Call("ToGregorian", ToGregorian(req.date))

CallFromGregorian ==
  Call("FromGregorian",
       FromGregorian(req.date.Year, req.date.Month, req.date.Day))

CallFormat == Call("Format", Format(req.date, req.layout))

CallAddDays == Call("AddDays", AddDays(req.date, req.value))

CallAddMonths == Call("AddMonths", AddMonths(req.date, req.value))

CallAddYears == Call("AddYears", AddYears(req.date, req.value))

\* JDNToEt(jdn) on the jdn that d.ToJDN() returned.
ThenJDNToEt == Then("ToJDN", JDNToEt(ret.jdn), 0)

\* JDNToGregorian(jdn) on the jdn that GregorianToJDN returned.
ThenJDNToGregorian == Then("GregorianToJDN", JDNToGregorian(ret.jdn), 0)

\* FromGregorian(gy, gm, gd) on the date that d.ToGregorian() returned.
ThenFromGregorian ==
  Then("ToGregorian", FromGregorian(ret.year, ret.month, ret.day), 0)

\* AddDays(b) on the date that d.AddDays(a) returned.
ThenAddDays ==
  \E b \in (-MaxDays)..MaxDays : Then("AddDays", AddDays(ret.date, b), b)

Next ==
  \/ CallIsLeap
  \/ CallDaysInMonth
  \/ CallValidate
  \/ CallToJDN
  \/ CallJDNToEt
  \/ CallGregorianToJDN
  \/ CallToGregorian
  \/ CallFromGregorian
  \/ CallFormat
  \/ CallAddDays
  \/ CallAddMonths
  \/ CallAddYears
  \/ ThenJDNToEt
  \/ ThenJDNToGregorian
  \/ ThenFromGregorian
  \/ ThenAddDays

Spec == Init /\ [][Next]_vars

(***************************************************************************)
(* Properties.                                                             *)
(***************************************************************************)
Called(op) == pc = "called" /\ req.op = op

Chained(op) == pc = "chained" /\ req.op = op

Ok(d) == [date |-> d, err |-> Nil]

\* C1: Ethiopian/JDN round trip.  For every valid Ethiopian date e, ToJDN(e)
\* succeeds and JDNToEt(ToJDN(e)) returns e without error; equivalently
\* AddDays(e, 0) returns e.
C1_EtJdnRoundTrip ==
  /\ (req.op = "ToJDN" /\ Validate(req.date) = Nil) =>
       /\ pc = "called" => ret.err = Nil
       /\ pc = "chained" => ret2 = Ok(req.date)
  /\ (Called("AddDays") /\ req.value = 0 /\ Validate(req.date) = Nil) =>
       ret = Ok(req.date)

\* C2: cross-calendar inverse.  For every valid Ethiopian date e,
\* ToGregorian(e) succeeds with some (gy, gm, gd) and
\* FromGregorian(gy, gm, gd) returns exactly e without error.
C2_CrossCalendarInverse ==
  (req.op = "ToGregorian" /\ Validate(req.date) = Nil) =>
    /\ pc = "called" => ret.err = Nil
    /\ pc = "chained" => ret2 = Ok(req.date)

\* C3: Gregorian/JDN round trip.  For every (y, m, d) that GregorianToJDN
\* accepts, JDNToGregorian(GregorianToJDN(y, m, d)) returns (y, m, d)
\* without error.
C3_GregorianJdnRoundTrip ==
  Chained("GregorianToJDN") =>
    ret2 = [year |-> req.date.Year, month |-> req.date.Month,
            day |-> req.date.Day, err |-> Nil]

\* C4: arithmetic never produces an out-of-range date.  For every valid
\* Ethiopian date e and every n, AddMonths(e, n) and AddYears(e, n) pass
\* Validate, and AddDays(e, n) passes Validate whenever it returns no error.
C4_ArithmeticStaysValid ==
  (pc = "called" /\ Validate(req.date) = Nil) =>
    /\ req.op \in {"AddMonths", "AddYears"} => Validate(ret) = Nil
    /\ (req.op = "AddDays" /\ ret.err = Nil) => Validate(ret.date) = Nil

\* The day count of e plus n is at or after the Ethiopian epoch.
InRange(e, n) == ToJDN(e).jdn + n >= jdOffset

\* C5: AddDays is additive.  For every valid Ethiopian date e and a, b that
\* keep the day counts at or after the epoch, AddDays(e, a) succeeds and
\* AddDays(AddDays(e, a), b) returns the same date as AddDays(e, a + b).
C5_AddDaysAdditive ==
  (req.op = "AddDays" /\ Validate(req.date) = Nil
     /\ InRange(req.date, req.value)) =>
    /\ pc = "called" => ret.err = Nil
    /\ (pc = "chained" /\ InRange(req.date, req.value + arg2)) =>
         /\ ret2.err = Nil
         /\ ret2 = AddDays(req.date, req.value + arg2)

\* The leap rule as the specification states it.
LeapRule(year) == year > 0 /\ year % 4 = 3

\* C6: leap and month-length rules.  IsLeap(year) is true iff year > 0 and
\* year mod 4 = 3; DaysInMonth(year, month) is 0 for a month outside 1..13,
\* 30 for months 1..12, and for month 13 it is 6 iff the year is leap and 5
\* otherwise.
C6_LeapAndMonthLength ==
  /\ Called("IsLeap") => ret = LeapRule(req.date.Year)
  /\ Called("DaysInMonth") =>
       ret = IF req.date.Month < 1 \/ req.date.Month > 13 THEN 0
             ELSE IF req.date.Month <= 12 THEN 30
             ELSE IF LeapRule(req.date.Year) THEN 6 ELSE 5

\* C6 witness: the month length the tests assert, DaysInMonth(2015, 13) = 6.
C6_Witness ==
  /\ Called("DaysInMonth")
  /\ req.date.Year = 2015 /\ req.date.Month = 13
  /\ ret = 6

\* C7: the core never panics.  Format(d, layout) returns a string for every
\* d, validated or not: monthNames[d.Month] always indexes inside the table.
C7_FormatNeverPanics ==
  Called("Format") => ret.panic = FALSE

\* C8 as stated: Validate rejects EthiopianDate{2017, 2, 6}.
C8_RejectsMonth2Day6 ==
  (Called("Validate") /\ req.date = EtDate(2017, 2, 6)) => ret # Nil

\* C8, amended: Validate accepts EthiopianDate{2017, 2, 6}; it returns nil.
C8_AcceptsMonth2Day6 ==
  (Called("Validate") /\ req.date = EtDate(2017, 2, 6)) => ret = Nil

\* C8 witness: Validate has been called on 2017/2/6.
C8_Witness ==
  Called("Validate") /\ req.date = EtDate(2017, 2, 6) /\ ret = Nil

Min(a, b) == IF a < b THEN a ELSE b

\* C9: AddMonths is base-13 month-index arithmetic with day clamping.  For
\* every valid e = (y, m, d) and every n, AddMonths(e, n) = (y', m', d') with
\* 1 <= m' <= 13, 13*y' + m' = 13*y + m + n and
\* d' = min(d, DaysInMonth(y', m')).
C9_AddMonthsBase13 ==
  (Called("AddMonths") /\ Validate(req.date) = Nil) =>
    /\ 1 <= ret.Month /\ ret.Month <= 13
    /\ 13 * ret.Year + ret.Month
         = 13 * req.date.Year + req.date.Month + req.value
    /\ ret.Day = Min(req.date.Day, DaysInMonth(ret.Year, ret.Month))

\* C9 witness: a negative n whose truncated remainder is negative, with the
\* day clamped: 2016/1/30 minus one month is 2015/13/6.
C9_Witness ==
  /\ Called("AddMonths")
  /\ req.date = EtDate(2016, 1, 30) /\ req.value = -1
  /\ ret = EtDate(2015, 13, 6)

\* The next calendar day of a valid date.
Succ(d) ==
  IF d.Day < DaysInMonth(d.Year, d.Month) THEN EtDate(d.Year, d.Month, d.Day + 1)
  ELSE IF d.Month < 13 THEN EtDate(d.Year, d.Month + 1, 1)
  ELSE EtDate(d.Year + 1, 1, 1)

\* C10: the closed-form ToJDN is exact.  ToJDN({1,1,1}) is the epoch offset,
\* and for every valid date d the next calendar day has the next day
\* number: ToJDN(succ(d)) = ToJDN(d) + 1.
C10_ToJDNExact ==
  (Called("ToJDN") /\ Validate(req.date) = Nil) =>
    /\ ret.err = Nil
    /\ req.date = EtDate(1, 1, 1) => ret.jdn = jdOffset
    /\ ToJDN(Succ(req.date)) = [jdn |-> ret.jdn + 1, err |-> Nil]

\* C10 witness: the leap day 2015/13/6, whose next day is 2016/1/1.
C10_Witness ==
  /\ Called("ToJDN")
  /\ req.date = EtDate(2015, 13, 6)
  /\ Succ(req.date) = EtDate(2016, 1, 1)
  /\ ToJDN(EtDate(2016, 1, 1)).jdn = ret.jdn + 1

\* C11: JDNToEt never returns a wrong date.  For every jdn, if JDNToEt(jdn)
\* returns without error then the returned date passes Validate and its
\* ToJDN is jdn, whichever path the year estimate took.
C11_JDNToEtNeverWrong ==
  (Called("JDNToEt") /\ ret.err = Nil) =>
    /\ Validate(ret.date) = Nil
    /\ ToJDN(ret.date) = [jdn |-> req.value, err |-> Nil]

\* C11 witness: JDNToEt returned a date on the path where the estimate
\* (jdn - jdOffset)/365 was one year too high and was decremented.
C11_Witness ==
  /\ Called("JDNToEt")
  /\ ret.err = Nil
  /\ Quo(req.value - jdOffset, 365) = ret.date.Year + 1
  /\ ToJDN(ret.date).jdn = req.value

====
